---- MODULE Spec2Model ----
(***************************************************************************)
(* Model of the circular buffer of src/circularbuffer.go: a fixed array    *)
(* with two cursors, a mutex guarding array and cursors, and a buffered    *)
(* channel `avail` used as a counting semaphore.  Threads call NBPush,     *)
(* Get and Pop; every operation is cut at the points where another thread  *)
(* can interleave: the call, the receive from avail, the acquisition of    *)
(* the mutex, and the critical section.                                    *)
(***************************************************************************)
EXTENDS Integers, Sequences, FiniteSets, TLC

\* ---- bounds of the model ----
MaxSize == 3
MaxPush == 2
MaxRemove == 2
NThreads == 2

Threads == 1..NThreads

\* the nil interface value; pushed values are 1, 2, ... in call order
Nil == 0

\* stands for "more than one thread" in pusher and remover
Many == 0 - 1

VARIABLES
  size,      \* b.size
  Evict,     \* TRUE iff the b.Evict callback is set
  start,     \* b.start
  pos,       \* b.pos
  buffer,    \* b.buffer, indexed 0..size-1
  avail,     \* len(b.avail)
  lock,      \* holder of b.lock, 0 when free
  pc,        \* position of each thread
  arg,       \* argument of the NBPush a thread is running
  panicked,  \* message of the panic that ended the program, or "none"
  nextVal,   \* next value to be pushed
  nRemove,   \* number of Get/Pop calls made so far
  pusher,    \* the thread that has called NBPush: 0 none yet, Many several
  remover,   \* the thread that has called Get or Pop: 0 none yet, Many several
  log        \* completed operations, in order of their critical sections

vars == <<size, Evict, start, pos, buffer, avail, lock, pc, arg, panicked,
          nextVal, nRemove, pusher, remover, log>>

\* ---- pure helpers ----

\* an advance that forgets to wrap around
NextIdx_NoWrap(i) == i + 1

\* (i + 1) % b.size
NextIdx(i) == (i + 1) % size

\* (b.size + i - 1) % b.size
PrevIdx(i) == (size + i - 1) % size

\* a channel made two places too small
AvailCap_TooSmall == size - 2

\* cap(b.avail)
AvailCap == size

\* Empty(): len(b.avail) == 0
Empty == avail = 0

\* the length reported through len(b.avail)
Length == avail

\* number of live cells between start and pos
Live == IF size = 0 THEN 0 ELSE (size + pos - start) % size

\* ---- construction ----

NewCircularBuffer(n) ==
  /\ size = n
  /\ buffer = [i \in 0..(n - 1) |-> Nil]
  /\ start = 0
  /\ pos = 0
  /\ avail = 0
  /\ lock = 0

Init ==
  /\ \E n \in 0..MaxSize : NewCircularBuffer(n)
  /\ Evict \in BOOLEAN
  /\ pc = [t \in Threads |-> "idle"]
  /\ arg = [t \in Threads |-> Nil]
  /\ panicked = "none"
  /\ nextVal = 1
  /\ nRemove = 0
  /\ pusher = 0
  /\ remover = 0
  /\ log = <<>>

Running == panicked = "none"

\* who has called so far, once thread t has called too
Caller(who, t) == IF who = 0 \/ who = t THEN t ELSE Many

\* ---- NBPush ----

NBPushCall(t) ==
  /\ Running
  /\ pc[t] = "idle"
  /\ nextVal <= MaxPush
  /\ pc' = [pc EXCEPT ![t] = "push_lock"]
  /\ arg' = [arg EXCEPT ![t] = nextVal]
  /\ nextVal' = nextVal + 1
  /\ pusher' = Caller(pusher, t)
  /\ UNCHANGED <<size, Evict, start, pos, buffer, avail, lock, panicked,
                 nRemove, remover, log>>

\* b.lock.Lock()
NBPushLock(t) ==
  /\ Running
  /\ pc[t] = "push_lock"
  /\ lock = 0
  /\ lock' = t
  /\ pc' = [pc EXCEPT ![t] = "push_write"]
  /\ UNCHANGED <<size, Evict, start, pos, buffer, avail, arg, panicked,
                 nextVal, nRemove, pusher, remover, log>>

\* NBPushWrite that advances pos before it writes the cell
NBPushWrite_WritesAfterAdvance(t) ==
  /\ Running
  /\ pc[t] = "push_write"
  /\ IF pos >= size
       THEN /\ panicked' = "index out of range"
            /\ lock' = 0
            /\ UNCHANGED <<buffer, pos, pc>>
       ELSE /\ buffer' = [buffer EXCEPT ![NextIdx(pos)] = arg[t]]
            /\ pos' = NextIdx(pos)
            /\ pc' = [pc EXCEPT ![t] = "push_fin"]
            /\ UNCHANGED <<panicked, lock>>
  /\ UNCHANGED <<size, Evict, start, avail, arg, nextVal, nRemove, pusher,
                 remover, log>>

\* b.buffer[b.pos] = v; b.pos = (b.pos + 1) % b.size
NBPushWrite(t) ==
  /\ Running
  /\ pc[t] = "push_write"
  /\ IF pos >= size
       THEN /\ panicked' = "index out of range"
            /\ lock' = 0
            /\ UNCHANGED <<buffer, pos, pc>>
       ELSE /\ buffer' = [buffer EXCEPT ![pos] = arg[t]]
            /\ pos' = NextIdx(pos)
            /\ pc' = [pc EXCEPT ![t] = "push_fin"]
            /\ UNCHANGED <<panicked, lock>>
  /\ UNCHANGED <<size, Evict, start, avail, arg, nextVal, nRemove, pusher,
                 remover, log>>

\* the record NBPush leaves in the log: ev is the evicted value, cb the value
\* handed to b.Evict, ret the value returned to the caller
PushRec(t, ev, cb) ==
  [op |-> "push", val |-> arg[t], evicting |-> TRUE, ev |-> ev,
   cb |-> cb, ret |-> Nil]

NoEvictRec(t) ==
  [op |-> "push", val |-> arg[t], evicting |-> FALSE, ev |-> Nil,
   cb |-> Nil, ret |-> Nil]

\* NBPushFinish with an eviction that takes the newest cell, not the oldest
NBPushFinish_EvictsNewest(t) ==
  /\ Running
  /\ pc[t] = "push_fin"
  /\ IF pos = start
       THEN /\ buffer' = [buffer EXCEPT ![PrevIdx(pos)] = Nil]
            /\ start' = NextIdx(start)
            /\ log' = Append(log, PushRec(t, buffer[PrevIdx(pos)],
                                          IF Evict THEN buffer[PrevIdx(pos)]
                                                   ELSE Nil))
            /\ pc' = [pc EXCEPT ![t] = "idle"]
            /\ UNCHANGED <<avail, panicked>>
       ELSE IF avail < AvailCap
         THEN /\ avail' = avail + 1
              /\ log' = Append(log, NoEvictRec(t))
              /\ pc' = [pc EXCEPT ![t] = "idle"]
              /\ UNCHANGED <<buffer, start, panicked>>
         ELSE /\ panicked' = "Sending to avail channel must never block"
              /\ UNCHANGED <<buffer, start, avail, log, pc>>
  /\ lock' = 0
  /\ arg' = [arg EXCEPT ![t] = Nil]
  /\ UNCHANGED <<size, Evict, pos, nextVal, nRemove, pusher, remover>>

\* NBPushFinish with an eviction that also sends to avail
NBPushFinish_EvictSignals(t) ==
  /\ Running
  /\ pc[t] = "push_fin"
  /\ IF pos = start
       THEN /\ buffer' = [buffer EXCEPT ![start] = Nil]
            /\ start' = NextIdx(start)
            /\ avail' = IF avail < AvailCap THEN avail + 1 ELSE avail
            /\ log' = Append(log, PushRec(t, buffer[start],
                                          IF Evict THEN buffer[start] ELSE Nil))
            /\ pc' = [pc EXCEPT ![t] = "idle"]
            /\ UNCHANGED panicked
       ELSE IF avail < AvailCap
         THEN /\ avail' = avail + 1
              /\ log' = Append(log, NoEvictRec(t))
              /\ pc' = [pc EXCEPT ![t] = "idle"]
              /\ UNCHANGED <<buffer, start, panicked>>
         ELSE /\ panicked' = "Sending to avail channel must never block"
              /\ UNCHANGED <<buffer, start, avail, log, pc>>
  /\ lock' = 0
  /\ arg' = [arg EXCEPT ![t] = Nil]
  /\ UNCHANGED <<size, Evict, pos, nextVal, nRemove, pusher, remover>>

\* NBPushFinish with a send that waits, holding the mutex, until the channel
\* has been drained
NBPushFinish_BlockingSend(t) ==
  /\ Running
  /\ pc[t] = "push_fin"
  /\ IF pos = start
       THEN /\ buffer' = [buffer EXCEPT ![start] = Nil]
            /\ start' = NextIdx(start)
            /\ log' = Append(log, PushRec(t, buffer[start],
                                          IF Evict THEN buffer[start] ELSE Nil))
            /\ UNCHANGED avail
       ELSE /\ avail < 1
            /\ avail' = avail + 1
            /\ log' = Append(log, NoEvictRec(t))
            /\ UNCHANGED <<buffer, start>>
  /\ pc' = [pc EXCEPT ![t] = "idle"]
  /\ lock' = 0
  /\ arg' = [arg EXCEPT ![t] = Nil]
  /\ UNCHANGED <<size, Evict, pos, panicked, nextVal, nRemove, pusher, remover>>

\* NBPushFinish with an eviction that leaves the evicted value in its cell
NBPushFinish_KeepsCell(t) ==
  /\ Running
  /\ pc[t] = "push_fin"
  /\ IF pos = start
       THEN /\ start' = NextIdx(start)
            /\ log' = Append(log, PushRec(t, buffer[start],
                                          IF Evict THEN buffer[start] ELSE Nil))
            /\ pc' = [pc EXCEPT ![t] = "idle"]
            /\ UNCHANGED <<buffer, avail, panicked>>
       ELSE IF avail < AvailCap
         THEN /\ avail' = avail + 1
              /\ log' = Append(log, NoEvictRec(t))
              /\ pc' = [pc EXCEPT ![t] = "idle"]
              /\ UNCHANGED <<buffer, start, panicked>>
         ELSE /\ panicked' = "Sending to avail channel must never block"
              /\ UNCHANGED <<buffer, start, avail, log, pc>>
  /\ lock' = 0
  /\ arg' = [arg EXCEPT ![t] = Nil]
  /\ UNCHANGED <<size, Evict, pos, nextVal, nRemove, pusher, remover>>

\* NBPushFinish that drops its signal when one is already pending in avail
NBPushFinish_DropsSignal(t) ==
  /\ Running
  /\ pc[t] = "push_fin"
  /\ IF pos = start
       THEN /\ buffer' = [buffer EXCEPT ![start] = Nil]
            /\ start' = NextIdx(start)
            /\ log' = Append(log, PushRec(t, buffer[start],
                                          IF Evict THEN buffer[start] ELSE Nil))
            /\ UNCHANGED avail
       ELSE /\ avail' = IF avail < 1 THEN avail + 1 ELSE avail
            /\ log' = Append(log, NoEvictRec(t))
            /\ UNCHANGED <<buffer, start>>
  /\ pc' = [pc EXCEPT ![t] = "idle"]
  /\ lock' = 0
  /\ arg' = [arg EXCEPT ![t] = Nil]
  /\ UNCHANGED <<size, Evict, pos, panicked, nextVal, nRemove, pusher,
                 remover>>

\* NBPushFinish that never evicts: a push into a full buffer just returns
NBPushFinish_NoEviction(t) ==
  /\ Running
  /\ pc[t] = "push_fin"
  /\ IF pos = start
       THEN /\ log' = Append(log, NoEvictRec(t))
            /\ pc' = [pc EXCEPT ![t] = "idle"]
            /\ UNCHANGED <<avail, panicked>>
       ELSE IF avail < AvailCap
         THEN /\ avail' = avail + 1
              /\ log' = Append(log, NoEvictRec(t))
              /\ pc' = [pc EXCEPT ![t] = "idle"]
              /\ UNCHANGED panicked
         ELSE /\ panicked' = "Sending to avail channel must never block"
              /\ UNCHANGED <<avail, log, pc>>
  /\ lock' = 0
  /\ arg' = [arg EXCEPT ![t] = Nil]
  /\ UNCHANGED <<size, Evict, start, pos, buffer, nextVal, nRemove, pusher,
                 remover>>

\* if b.pos == b.start { evict } else { b.avail <- true }; deferred Unlock
NBPushFinish(t) ==
  /\ Running
  /\ pc[t] = "push_fin"
  /\ IF pos = start
       THEN /\ buffer' = [buffer EXCEPT ![start] = Nil]
            /\ start' = NextIdx(start)
            /\ log' = Append(log, PushRec(t, buffer[start],
                                          IF Evict THEN buffer[start] ELSE Nil))
            /\ pc' = [pc EXCEPT ![t] = "idle"]
            /\ UNCHANGED <<avail, panicked>>
       ELSE IF avail < AvailCap
         THEN /\ avail' = avail + 1
              /\ log' = Append(log, NoEvictRec(t))
              /\ pc' = [pc EXCEPT ![t] = "idle"]
              /\ UNCHANGED <<buffer, start, panicked>>
         ELSE /\ panicked' = "Sending to avail channel must never block"
              /\ UNCHANGED <<buffer, start, avail, log, pc>>
  /\ lock' = 0
  /\ arg' = [arg EXCEPT ![t] = Nil]
  /\ UNCHANGED <<size, Evict, pos, nextVal, nRemove, pusher, remover>>

\* ---- Get ----

GetCall(t) ==
  /\ Running
  /\ pc[t] = "idle"
  /\ nRemove < MaxRemove
  /\ pc' = [pc EXCEPT ![t] = "get_recv"]
  /\ nRemove' = nRemove + 1
  /\ remover' = Caller(remover, t)
  /\ UNCHANGED <<size, Evict, start, pos, buffer, avail, lock, arg, panicked,
                 nextVal, pusher, log>>

\* GetRecv that receives without taking the value out of avail
GetRecv_NoDecrement(t) ==
  /\ Running
  /\ pc[t] = "get_recv"
  /\ avail > 0
  /\ pc' = [pc EXCEPT ![t] = "get_lock"]
  /\ UNCHANGED <<size, Evict, start, pos, buffer, avail, lock, arg, panicked,
                 nextVal, nRemove, pusher, remover, log>>

\* _ = <-b.avail
GetRecv(t) ==
  /\ Running
  /\ pc[t] = "get_recv"
  /\ avail > 0
  /\ avail' = avail - 1
  /\ pc' = [pc EXCEPT ![t] = "get_lock"]
  /\ UNCHANGED <<size, Evict, start, pos, buffer, lock, arg, panicked,
                 nextVal, nRemove, pusher, remover, log>>

\* b.lock.Lock()
GetLock(t) ==
  /\ Running
  /\ pc[t] = "get_lock"
  /\ lock = 0
  /\ lock' = t
  /\ pc' = [pc EXCEPT ![t] = "get_body"]
  /\ UNCHANGED <<size, Evict, start, pos, buffer, avail, arg, panicked,
                 nextVal, nRemove, pusher, remover, log>>

RemoveRec(t, op, v) ==
  [op |-> op, val |-> v, evicting |-> FALSE, ev |-> Nil,
   cb |-> Nil, ret |-> v]

\* GetBody that reads the newest cell instead of the oldest
GetBody_ReadsNewest(t) ==
  /\ Running
  /\ pc[t] = "get_body"
  /\ IF start = pos
       THEN /\ panicked' = "Trying to get from empty buffer"
            /\ UNCHANGED <<start, log, pc>>
       ELSE /\ start' = NextIdx(start)
            /\ log' = Append(log, RemoveRec(t, "get", buffer[PrevIdx(pos)]))
            /\ pc' = [pc EXCEPT ![t] = "idle"]
            /\ UNCHANGED panicked
  /\ lock' = 0
  /\ UNCHANGED <<size, Evict, pos, buffer, avail, arg, nextVal, nRemove,
                 pusher, remover>>

\* GetBody that advances start by two cells
GetBody_SkipsCell(t) ==
  /\ Running
  /\ pc[t] = "get_body"
  /\ IF start = pos
       THEN /\ panicked' = "Trying to get from empty buffer"
            /\ UNCHANGED <<start, log, pc>>
       ELSE /\ start' = NextIdx(NextIdx(start))
            /\ log' = Append(log, RemoveRec(t, "get", buffer[start]))
            /\ pc' = [pc EXCEPT ![t] = "idle"]
            /\ UNCHANGED panicked
  /\ lock' = 0
  /\ UNCHANGED <<size, Evict, pos, buffer, avail, arg, nextVal, nRemove,
                 pusher, remover>>

\* the empty check, v := b.buffer[b.start], the advance of start; deferred
\* Unlock
GetBody(t) ==
  /\ Running
  /\ pc[t] = "get_body"
  /\ IF start = pos
       THEN /\ panicked' = "Trying to get from empty buffer"
            /\ UNCHANGED <<start, log, pc>>
       ELSE /\ start' = NextIdx(start)
            /\ log' = Append(log, RemoveRec(t, "get", buffer[start]))
            /\ pc' = [pc EXCEPT ![t] = "idle"]
            /\ UNCHANGED panicked
  /\ lock' = 0
  /\ UNCHANGED <<size, Evict, pos, buffer, avail, arg, nextVal, nRemove,
                 pusher, remover>>

\* ---- Pop ----

PopCall(t) ==
  /\ Running
  /\ pc[t] = "idle"
  /\ nRemove < MaxRemove
  /\ pc' = [pc EXCEPT ![t] = "pop_recv"]
  /\ nRemove' = nRemove + 1
  /\ remover' = Caller(remover, t)
  /\ UNCHANGED <<size, Evict, start, pos, buffer, avail, lock, arg, panicked,
                 nextVal, pusher, log>>

\* PopRecv that goes on without waiting for a value in avail
PopRecv_NoWait(t) ==
  /\ Running
  /\ pc[t] = "pop_recv"
  /\ avail' = IF avail > 0 THEN avail - 1 ELSE 0
  /\ pc' = [pc EXCEPT ![t] = "pop_lock"]
  /\ UNCHANGED <<size, Evict, start, pos, buffer, lock, arg, panicked,
                 nextVal, nRemove, pusher, remover, log>>

\* _ = <-b.avail
PopRecv(t) ==
  /\ Running
  /\ pc[t] = "pop_recv"
  /\ avail > 0
  /\ avail' = avail - 1
  /\ pc' = [pc EXCEPT ![t] = "pop_lock"]
  /\ UNCHANGED <<size, Evict, start, pos, buffer, lock, arg, panicked,
                 nextVal, nRemove, pusher, remover, log>>

\* b.lock.Lock()
PopLock(t) ==
  /\ Running
  /\ pc[t] = "pop_lock"
  /\ lock = 0
  /\ lock' = t
  /\ pc' = [pc EXCEPT ![t] = "pop_body"]
  /\ UNCHANGED <<size, Evict, start, pos, buffer, avail, arg, panicked,
                 nextVal, nRemove, pusher, remover, log>>

\* PopBody that reads the cell at pos before it retreats
PopBody_ReadsFirst(t) ==
  /\ Running
  /\ pc[t] = "pop_body"
  /\ IF start = pos
       THEN /\ panicked' = "Can't pop from empty buffer"
            /\ UNCHANGED <<pos, buffer, log, pc>>
       ELSE /\ pos' = PrevIdx(pos)
            /\ buffer' = [buffer EXCEPT ![PrevIdx(pos)] = Nil]
            /\ log' = Append(log, RemoveRec(t, "pop", buffer[pos]))
            /\ pc' = [pc EXCEPT ![t] = "idle"]
            /\ UNCHANGED panicked
  /\ lock' = 0
  /\ UNCHANGED <<size, Evict, start, avail, arg, nextVal, nRemove, pusher, remover>>

\* PopBody that returns the newest cell and leaves pos and the cell as they
\* are
PopBody_NoRetreat(t) ==
  /\ Running
  /\ pc[t] = "pop_body"
  /\ IF start = pos
       THEN /\ panicked' = "Can't pop from empty buffer"
            /\ UNCHANGED <<log, pc>>
       ELSE /\ log' = Append(log, RemoveRec(t, "pop", buffer[PrevIdx(pos)]))
            /\ pc' = [pc EXCEPT ![t] = "idle"]
            /\ UNCHANGED panicked
  /\ lock' = 0
  /\ UNCHANGED <<size, Evict, start, pos, buffer, avail, arg, nextVal,
                 nRemove, pusher, remover>>

\* the empty check, the retreat of pos, v := b.buffer[b.pos], the clearing of
\* the cell; deferred Unlock
PopBody(t) ==
  /\ Running
  /\ pc[t] = "pop_body"
  /\ IF start = pos
       THEN /\ panicked' = "Can't pop from empty buffer"
            /\ UNCHANGED <<pos, buffer, log, pc>>
       ELSE /\ pos' = PrevIdx(pos)
            /\ buffer' = [buffer EXCEPT ![PrevIdx(pos)] = Nil]
            /\ log' = Append(log, RemoveRec(t, "pop", buffer[PrevIdx(pos)]))
            /\ pc' = [pc EXCEPT ![t] = "idle"]
            /\ UNCHANGED panicked
  /\ lock' = 0
  /\ UNCHANGED <<size, Evict, start, avail, arg, nextVal, nRemove, pusher, remover>>

Next ==
  \E t \in Threads :
    \/ NBPushCall(t)
    \/ NBPushLock(t)
    \/ NBPushWrite(t)
    \/ NBPushFinish(t)
    \/ GetCall(t)
    \/ GetRecv(t)
    \/ GetLock(t)
    \/ GetBody(t)
    \/ PopCall(t)
    \/ PopRecv(t)
    \/ PopLock(t)
    \/ PopBody(t)

Spec == Init /\ [][Next]_vars

\* ---- fairness: the mutex is handed to every waiter eventually, and a
\* thread that can run a step that needs no lock eventually runs it ----

LockStep(t) == NBPushLock(t) \/ GetLock(t) \/ PopLock(t)

RunStep(t) ==
  \/ NBPushWrite(t) \/ NBPushFinish(t)
  \/ GetRecv(t) \/ GetBody(t)
  \/ PopRecv(t) \/ PopBody(t)

Fairness == \A t \in Threads : SF_vars(LockStep(t)) /\ WF_vars(RunStep(t))

FairSpec == Spec /\ Fairness

\* ---- observations on the log ----

AllIdle == \A t \in Threads : pc[t] = "idle"

InPush(t) == pc[t] \in {"push_lock", "push_write", "push_fin"}

\* a Get or Pop that has received from avail and has not returned yet
InFlight(t) == pc[t] \in {"get_lock", "get_body", "pop_lock", "pop_body"}

InRemoval(t) == pc[t] \in {"get_recv", "pop_recv"} \/ InFlight(t)

IsPush(r) == r.op = "push"

IsRemove(r) == r.op \in {"get", "pop"}

IsEvicting(r) == r.op = "push" /\ r.evicting

Pushes == SelectSeq(log, IsPush)

Removes == SelectSeq(log, IsRemove)

Evictions == SelectSeq(log, IsEvicting)

NPush == Len(Pushes)

NRem == Len(Removes)

NEvict == Len(Evictions)

NInFlight == Cardinality({t \in Threads : InFlight(t)})

\* number of NBPush calls made so far
NPushCalls == nextVal - 1

\* the log is a run of pushes followed by a run of removals of kind op
PushesThen(op) ==
  \A i \in 1..Len(log) :
    IF i <= NPush THEN log[i].op = "push" ELSE log[i].op = op

\* every call so far was made by one and the same thread, one call after the
\* other
SingleThread ==
  /\ pusher \in Threads
  /\ remover \in {0, pusher}

\* one thread is the only one that pushes, another one the only one that
\* removes, and it removes with op only
Roles(op) ==
  /\ pusher \in Threads
  /\ remover \in Threads
  /\ pusher # remover
  /\ \A i \in 1..Len(log) : log[i].op \in {"push", op}
  /\ \A t \in Threads :
       InRemoval(t) => pc[t] \in {op \o "_recv", op \o "_lock", op \o "_body"}

\* C1: FIFO.  For a capacity of at least 2, when k <= size-1 pushes into the
\* fresh buffer are followed by Gets, the Gets return the pushed values in
\* push order, and after k of them the buffer is empty: Empty() holds and
\* start = pos.
C1_SyncFIFO ==
  (size >= 2 /\ PushesThen("get") /\ NPushCalls <= size - 1) =>
    /\ \A i \in 1..NRem : Removes[i].val = Pushes[i].val
    /\ (NRem = NPush /\ AllIdle) => (Empty /\ start = pos)

\* one thread has pushed size-1 values and then got them all
C1_Witness ==
  /\ size = 3 /\ SingleThread /\ AllIdle
  /\ Len(log) = 4 /\ PushesThen("get") /\ NPush = 2

\* C2: LIFO.  For a capacity of at least 2, when k <= size-1 pushes into the
\* fresh buffer are followed by Pops, the Pops return the pushed values in
\* reverse push order, and after k of them the buffer is empty: Empty() holds
\* and start = pos.
C2_SyncLIFO ==
  (size >= 2 /\ PushesThen("pop") /\ NPushCalls <= size - 1) =>
    /\ \A i \in 1..NRem : Removes[i].val = Pushes[NPush + 1 - i].val
    /\ (NRem = NPush /\ AllIdle) => (Empty /\ start = pos)

\* one thread has pushed size-1 values and then popped them all
C2_Witness ==
  /\ size = 3 /\ SingleThread /\ AllIdle
  /\ Len(log) = 4 /\ PushesThen("pop") /\ NPush = 2

C4_Length ==
  /\ size >= 1 => (0 <= Length /\ Length <= size - 1)
  /\ NInFlight = 0 => Length = NPush - (NRem + NEvict)

\* two pushes, one of them evicting, have left one element
C4_Witness ==
  /\ size = 2 /\ AllIdle /\ Length = 1
  /\ NPush = 2 /\ NEvict = 1 /\ NRem = 0

\* C5: eviction delivery.  A push that evicts hands the evicted value to the
\* callback and returns nil when a callback is set, and returns the evicted
\* value when none is set; a push that does not evict returns nil and calls
\* no callback.
C5_EvictionDelivered ==
  \A i \in 1..Len(log) :
    IsPush(log[i]) =>
      IF log[i].evicting
        THEN IF Evict
               THEN log[i].cb = log[i].ev /\ log[i].ret = Nil
               ELSE log[i].cb = Nil /\ log[i].ret = log[i].ev
        ELSE log[i].cb = Nil /\ log[i].ret = Nil

\* C6: NBPush never blocks on the fill state.  For a capacity of at least 1
\* and under fair handing-over of the mutex, every NBPush that was started
\* returns, whatever the fill state and whether or not a Get or Pop is ever
\* called.
C6_PushReturns ==
  \A t \in Threads : (size >= 1 /\ InPush(t)) ~> (pc[t] = "idle")

\* a push has returned from a full buffer on which no Get or Pop was called
C6_Witness ==
  /\ size >= 2 /\ nRemove = 0 /\ AllIdle
  /\ NEvict >= 1 /\ Length = size - 1

\* C7: concurrent FIFO.  With one thread making k <= size-1 pushes into the
\* fresh buffer and another thread making Gets at the same time, the Gets
\* return the pushed values in push order under every interleaving, and when
\* both are done with as many Gets as pushes the buffer is empty.
C7_AsyncFIFO ==
  (size >= 2 /\ Roles("get") /\ NPushCalls <= size - 1) =>
    /\ \A i \in 1..NRem : Removes[i].val = Pushes[i].val
    /\ (NRem = NPush /\ AllIdle) => (avail = 0 /\ start = pos)

\* a Get of the consumer returned between two pushes of the producer
C7_Witness ==
  /\ size = 3 /\ Roles("get") /\ AllIdle
  /\ Len(log) = 4 /\ NPush = 2
  /\ log[2].op = "get" /\ log[3].op = "push"

\* C8: concurrent LIFO.  With one thread making k <= size-1 pushes into the
\* fresh buffer and another thread making k Pops at the same time, once both
\* are done the Pops have returned the pushed values in reverse push order
\* under every interleaving, and the buffer is empty.
C8_AsyncLIFO ==
  (size >= 2 /\ Roles("pop") /\ NPushCalls <= size - 1
     /\ NRem = NPush /\ AllIdle) =>
    /\ \A i \in 1..NRem : Removes[i].val = Pushes[NPush + 1 - i].val
    /\ avail = 0 /\ start = pos

\* C9: a buffer constructed with capacity 0 is rejected at construction, so
\* that no NBPush, Get or Pop is ever invoked on it.
C9_ZeroCapacityRejected ==
  size = 0 => AllIdle

\* pushes that took the non-evicting branch and returned
NNonEvicting == NPush - NEvict

\* C10: one removal per available element.  Under every interleaving the
\* number of Get and Pop calls that have received from avail, returned or
\* not, is at most the number of pushes that returned without evicting.
C10_OneRemovalPerElement ==
  NInFlight + NRem <= NNonEvicting

\* two removals are past their receive at the same time, one per push
C10_Witness ==
  /\ NInFlight = 2 /\ NNonEvicting = 2 /\ NRem = 0

\* verifyIsEmpty would panic with "desychronized state": it takes the mutex,
\* reads len(b.avail) == 0 and finds pos # start
VerifyIsEmptyPanics == lock = 0 /\ avail = 0 /\ pos # start

\* C11: counter/cursor synchronisation.  In every state in which no thread
\* holds the mutex, len(avail) equals the number of live cells
\* (size + pos - start) % size, so that verifyIsEmpty never panics.
C11_CounterIsLive ==
  lock = 0 => (avail = Live /\ ~VerifyIsEmptyPanics)

\* C12: no empty-buffer panic.  Under every interleaving, a Get or Pop that
\* has received from avail and taken the mutex finds start # pos, so neither
\* "Trying to get from empty buffer" nor "Can't pop from empty buffer" is ever
\* raised.
C12_NoEmptyPanic ==
  /\ \A t \in Threads : pc[t] \in {"get_body", "pop_body"} => start # pos
  /\ panicked \notin {"Trying to get from empty buffer",
                      "Can't pop from empty buffer"}

\* a push is about to evict while a reader is between its receive from avail
\* and its acquisition of the mutex
C12_Witness ==
  \E t, u \in Threads :
    /\ pc[t] \in {"get_lock", "pop_lock"}
    /\ pc[u] = "push_fin" /\ pos = start

\* C13: the counter never overflows.  For every capacity of at least 1 and
\* under every interleaving, the send to avail on the non-evicting branch of
\* NBPush finds room, "Sending to avail channel must never block" is never
\* raised, and len(avail) never exceeds size-1.
C13_NoOverflow ==
  size >= 1 =>
    /\ \A t \in Threads :
         (pc[t] = "push_fin" /\ pos # start) => avail < AvailCap
    /\ panicked # "Sending to avail channel must never block"
    /\ avail <= size - 1

\* a push is about to send the value that brings avail to its maximum size-1
C13_Witness ==
  /\ size = 3 /\ avail = 1
  /\ \E t \in Threads : pc[t] = "push_fin" /\ pos # start

\* the live cells buffer[start], buffer[start+1], ..., buffer[pos-1], indices
\* taken modulo size
Contents == [i \in 1..Live |-> buffer[(start + i - 1) % size]]

\* a sequence without its last element
Front(q) == SubSeq(q, 1, Len(q) - 1)

\* the abstract sequence of at most size-1 values after the first n
\* operations of the log: a push appends at the back and drops the front
\* value when the sequence would exceed size-1 values, a get drops the front
\* value, a pop drops the back value
RECURSIVE AbsAfter(_)
AbsAfter(n) ==
  IF n = 0 THEN <<>>
  ELSE LET q == AbsAfter(n - 1)
           r == log[n]
       IN  IF r.op = "push"
             THEN IF Len(q) + 1 > size - 1 THEN Tail(Append(q, r.val))
                                             ELSE Append(q, r.val)
             ELSE IF r.op = "get" THEN Tail(q) ELSE Front(q)

\* the n-th operation of the log did what the abstract sequence does
AbsAgrees(n) ==
  LET q == AbsAfter(n - 1)
      r == log[n]
  IN  IF r.op = "push"
        THEN IF Len(q) + 1 > size - 1
               THEN r.evicting /\ r.ev = Head(Append(q, r.val))
               ELSE ~r.evicting
        ELSE /\ Len(q) > 0
             /\ r.val = (IF r.op = "get" THEN q[1] ELSE q[Len(q)])

\* C14: bounded-deque refinement.  For a capacity of at least 2 the buffer
\* behaves like an abstract sequence of at most size-1 values: every push,
\* Get and Pop of the log evicted or returned what the abstract sequence
\* gives, and whenever the mutex is free the cells buffer[start..pos-1] hold
\* exactly that sequence.
C14_DequeRefinement ==
  size >= 2 =>
    /\ \A n \in 1..Len(log) : AbsAgrees(n)
    /\ lock = 0 => Contents = AbsAfter(Len(log))

\* one thread has pushed twice, popped the newest value and got the oldest
C14_Witness ==
  /\ size = 3 /\ SingleThread /\ AllIdle /\ Len(log) = 4
  /\ log[1].op = "push" /\ log[2].op = "push"
  /\ log[3].op = "pop" /\ log[4].op = "get"

\* the number of live cells before the push that is now between its advance
\* of pos and its return
LiveBeforeWrite == (size + PrevIdx(pos) - start) % size

\* C15: eviction frame.  A push that takes the eviction branch leaves
\* len(avail) and the number of live cells as they were before the push,
\* advances start by one modulo size and sets the evicted cell to nil; a push
\* that takes the other branch leaves start alone and adds exactly one to
\* len(avail).
C15_EvictionFrame ==
  [][\A t \in Threads :
       (pc[t] = "push_fin" /\ pc'[t] = "idle") =>
         IF pos = start
           THEN /\ avail' = avail
                /\ Live' = LiveBeforeWrite
                /\ start' = (start + 1) % size
                /\ buffer'[start] = Nil
           ELSE /\ start' = start
                /\ avail' = avail + 1]_vars

\* an evicting push has moved start to cell 1 and left cell 0 nil
C15_Witness ==
  /\ size = 2 /\ lock = 0 /\ NEvict = 1
  /\ start = 1 /\ pos = 0 /\ buffer[0] = Nil /\ avail = 1

\* how often value v was returned by a Get or Pop
TimesReturned(v) == Cardinality({i \in 1..Len(log) :
                                   IsRemove(log[i]) /\ log[i].val = v})

\* how often value v was evicted
TimesEvicted(v) == Cardinality({i \in 1..Len(log) :
                                  IsEvicting(log[i]) /\ log[i].ev = v})

\* how many live cells hold value v
TimesLive(v) == Cardinality({i \in 1..Live : Contents[i] = v})

\* the values whose push has returned
PushedValues == {Pushes[i].val : i \in 1..NPush}

\* C16: exactly-once delivery.  Under every interleaving of producers and
\* consumers, Get and Pop mixed, every value returned or evicted is a pushed
\* value, no pushed value is returned or evicted more than once in total, and
\* whenever the mutex is free (so also once all calls have completed) every
\* pushed value is exactly one of: still live, returned once, evicted once.
C16_ExactlyOnce ==
  /\ \A i \in 1..Len(log) :
       /\ IsRemove(log[i]) => log[i].val \in PushedValues
       /\ IsEvicting(log[i]) => log[i].ev \in PushedValues
  /\ \A v \in PushedValues : TimesReturned(v) + TimesEvicted(v) <= 1
  /\ lock = 0 =>
       \A v \in PushedValues :
         TimesLive(v) + TimesReturned(v) + TimesEvicted(v) = 1

\* two threads have removed the two pushed values, one with Get and one with
\* Pop
C16_Witness ==
  /\ AllIdle /\ remover = Many /\ NPush = 2 /\ NRem = 2
  /\ \E i, j \in 1..Len(log) : log[i].op = "get" /\ log[j].op = "pop"

\* some Get or Pop is waiting to receive from avail
Waiting == \E t \in Threads : pc[t] \in {"get_recv", "pop_recv"}

\* one thread is the only one that pushes and another the only one that
\* removes
OneToOne == pusher \in Threads /\ remover \in Threads /\ pusher # remover

\* C17: no lost wakeup.  Under fair scheduling and fair handing-over of the
\* mutex, whenever len(avail) > 0 while a Get or Pop waits on it, one more
\* Get or Pop returns; and with one producer and one consumer, once the
\* consumer has made j <= size-1 calls and the producer at least j calls,
\* all j removals return, whichever of the two called first (unless a
\* further thread joins in).
C17_NoLostWakeup ==
  /\ \A n \in 0..(MaxRemove - 1) :
       (avail > 0 /\ Waiting /\ NRem = n) ~> (NRem > n)
  /\ (OneToOne /\ nRemove <= NPushCalls /\ nRemove <= size - 1)
       ~> (NRem = nRemove \/ pusher = Many \/ remover = Many)

\* the consumer has got one value and waits again while the next value is
\* signalled in avail
C17_Witness ==
  /\ OneToOne /\ pc[remover] = "get_recv" /\ avail = 1
  /\ NRem = 1 /\ NPush = 2 /\ lock = 0

\* C18: capacity 1.  In a buffer of size 1 every push takes the eviction
\* branch and evicts the value it has just written, start and pos stay 0,
\* len(avail) stays 0, Empty() is always true, and no Get or Pop ever gets
\* past its receive from avail, let alone returns.
C18_CapacityOne ==
  size = 1 =>
    /\ start = 0 /\ pos = 0
    /\ avail = 0 /\ Empty
    /\ \A i \in 1..Len(log) :
         IsEvicting(log[i]) /\ log[i].ev = log[i].val
    /\ \A t \in Threads : ~InFlight(t)

\* two pushes have returned from a buffer of size 1 while a Get is waiting
C18_Witness ==
  /\ size = 1 /\ NPush = 2
  /\ \E t \in Threads : pc[t] = "get_recv"

\* the cell at pos holds nothing that is still to be delivered: it is nil or
\* holds a value that was already returned or evicted
CellAtPosIsFree ==
  \/ buffer[pos] = Nil
  \/ TimesReturned(buffer[pos]) + TimesEvicted(buffer[pos]) >= 1

\* C19: the sentinel cell is never live.  Whenever the mutex is free, and in
\* the states in which NBPush is about to write buffer[pos] or Get is at the
\* place where it sets buffer[pos] to nil, the cell at pos holds no value
\* that is still to be delivered, so these writes destroy no live element.
C19_SentinelFree ==
  size >= 1 =>
    ((lock = 0 \/ \E t \in Threads : pc[t] \in {"push_write", "get_body"})
       => CellAtPosIsFree)

\* the buffer is full and the cell at pos still holds a value that a Get has
\* returned
C19_Witness ==
  /\ size = 2 /\ lock = 0 /\ Live = 1
  /\ buffer[pos] # Nil /\ TimesReturned(buffer[pos]) = 1

====
